---- MODULE Spec2Model ----
(***************************************************************************)
(* Model of src/index.ts: the MerkleFactory batch accumulator, the tree    *)
(* registry, and proof generation / verification through merkletreejs      *)
(* (new MerkleTree(leaves, crypto.SHA256), default options).                *)
(*                                                                         *)
(* Digests are symbolic terms, so SHA256 is collision free in the model:    *)
(*   <<"leaf", s>>     is SHA256 of the header hash string s               *)
(*   <<"node", l, r>>  is SHA256 of the bytes of l followed by those of r  *)
(* Indices into leaves and layers are 0-based as in the code; TLA+          *)
(* sequences are 1-based, so element i of the code is seq[i + 1].          *)
(***************************************************************************)
EXTENDS Integers, Sequences, FiniteSets, TLC

\* ---- bounds of the model ------------------------------------------------
NumHashes == 2
MaxBatch == 3
MaxAdds == 4

Hashes == 1..NumHashes
\* batchSize is an unchecked number: the constructor takes -1 and 0 as well
BatchSizes == -1..MaxBatch

\* BlockHeader, src/index.ts:5-11 (parentHash, stateRoot and extrinsicsRoot
\* are read nowhere in MerkleFactory and are left out of the record)
BlockHeader == [number : {0, 1}, hash : Hashes]

\* batchSize, headers, merkleTrees: the fields of MerkleFactory
\* nAdded:  how many addHeader calls have started
\* arrived: the hash of every header handed to addHeader, in arrival order
\* pc:      where the running addHeader call stands ("idle": no call runs)
\* last:    the latest call, its arguments and what it returned
VARIABLES batchSize, headers, merkleTrees, nAdded, arrived, pc, last

vars == <<batchSize, headers, merkleTrees, nAdded, arrived, pc, last>>

\* ---- digests --------------------------------------------------------------
\* a leaf value that hashes the block number together with the hash
LeafOfNumbered(header) == <<"leaf", header.hash + 100 * header.number>>

\* crypto.SHA256(header.hash), as the Buffer merkletreejs and Buffer.from make
LeafOf(header) == <<"leaf", header.hash>>

\* the hash of the concatenation taken in the other order
HashPairSwapped(left, right) == <<"node", right, left>>

\* hashFn(Buffer.concat([left, right])) of merkletreejs
HashPair(left, right) == <<"node", left, right>>

\* ---- merkletreejs: construction -------------------------------------------
\* one pass of the for loop of _createHashes with duplicateOdd set
NextLayerDuplicateOdd(nodes) ==
  [k \in 1..((Len(nodes) + 1) \div 2) |->
     IF 2 * k <= Len(nodes)
       THEN HashPair(nodes[2 * k - 1], nodes[2 * k])
       ELSE HashPair(nodes[2 * k - 1], nodes[2 * k - 1])]

\* one pass of the for loop of _createHashes, default options: adjacent nodes
\* are hashed as a pair; the last node of an odd layer is pushed unchanged
NextLayer(nodes) ==
  [k \in 1..((Len(nodes) + 1) \div 2) |->
     IF 2 * k <= Len(nodes)
       THEN HashPair(nodes[2 * k - 1], nodes[2 * k])
       ELSE nodes[2 * k - 1]]

\* while (nodes.length > 1) { push a layer; nodes = that layer }
RECURSIVE CreateHashes(_)
CreateHashes(layers) ==
  IF Len(layers[Len(layers)]) > 1
    THEN CreateHashes(Append(layers, NextLayer(layers[Len(layers)])))
    ELSE layers

\* new MerkleTree(leaves, crypto.SHA256): layers = [leaves], then _createHashes
NewMerkleTree(leaves) ==
  [leaves |-> leaves, layers |-> CreateHashes(<<leaves>>)]

\* tree.getRoot(): first node of the last layer
GetRoot(tree) == tree.layers[Len(tree.layers)][1]

\* tree.getLeafIndex(leaf): the first index holding the leaf, or -1
GetLeafIndex(tree, leaf) ==
  IF \E i \in 1..Len(tree.leaves) : tree.leaves[i] = leaf
    THEN (CHOOSE i \in 1..Len(tree.leaves) :
            /\ tree.leaves[i] = leaf
            /\ \A j \in 1..(i - 1) : tree.leaves[j] # leaf) - 1
    ELSE -1

\* the index loop of tree.getProof(leaf): no break, so the last match wins
ProofIndex(tree, leaf) ==
  IF \E i \in 1..Len(tree.leaves) : tree.leaves[i] = leaf
    THEN (CHOOSE i \in 1..Len(tree.leaves) :
            /\ tree.leaves[i] = leaf
            /\ \A j \in (i + 1)..Len(tree.leaves) : tree.leaves[j] # leaf) - 1
    ELSE -1

\* a proof element as getProof emits it
ProofNode(position, data) ==
  [kind |-> "object", position |-> position, data |-> data]

\* the layer loop of tree.getProof with the two sides exchanged
RECURSIVE ProofLoopSwapped(_, _, _, _)
ProofLoopSwapped(layers, i, index, proof) ==
  IF i >= Len(layers)
    THEN proof
    ELSE LET layer == layers[i + 1]
             isRightNode == index % 2 = 1
             pairIndex == IF isRightNode THEN index - 1 ELSE index + 1
         IN ProofLoopSwapped(layers, i + 1, index \div 2,
              IF pairIndex < Len(layer)
                THEN Append(proof,
                       ProofNode(IF isRightNode THEN "right" ELSE "left",
                                 layer[pairIndex + 1]))
                ELSE proof)

\* the layer loop of tree.getProof: at layer i (0-based) the sibling of index
\* is emitted when it exists, then index becomes the parent's index
RECURSIVE ProofLoop(_, _, _, _)
ProofLoop(layers, i, index, proof) ==
  IF i >= Len(layers)
    THEN proof
    ELSE LET layer == layers[i + 1]
             isRightNode == index % 2 = 1
             pairIndex == IF isRightNode THEN index - 1 ELSE index + 1
         IN ProofLoop(layers, i + 1, index \div 2,
              IF pairIndex < Len(layer)
                THEN Append(proof,
                       ProofNode(IF isRightNode THEN "left" ELSE "right",
                                 layer[pairIndex + 1]))
                ELSE proof)

\* tree.getProof(leaf)
GetProof(tree, leaf) ==
  IF ProofIndex(tree, leaf) <= -1
    THEN <<>>
    ELSE ProofLoop(tree.layers, 0, ProofIndex(tree, leaf), <<>>)

\* ---- merkletreejs: verification -------------------------------------------
\* a proof element that is no string, array, Buffer or object (a number, null)
BadNode == [kind |-> "other", position |-> "none", data |-> <<"leaf", 0>>]

\* the loop of tree.verify without the final comparison with root
RECURSIVE VerifyLoopNoCompare(_, _, _, _)
VerifyLoopNoCompare(proof, i, hash, root) ==
  IF i >= Len(proof)
    THEN [threw |-> FALSE, value |-> TRUE]
    ELSE LET node == proof[i + 1]
         IN IF node.kind # "object"
              THEN [threw |-> TRUE, value |-> FALSE]
              ELSE VerifyLoopNoCompare(proof, i + 1,
                     IF node.position = "left"
                       THEN HashPair(node.data, hash)
                       ELSE HashPair(hash, node.data),
                     root)

\* the for loop of tree.verify(proof, targetNode, root): each element is
\* folded into hash on its side (position 'left' puts the sibling first); an
\* element of no accepted type makes verify throw; at the end hash is
\* compared with root
RECURSIVE VerifyLoop(_, _, _, _)
VerifyLoop(proof, i, hash, root) ==
  IF i >= Len(proof)
    THEN [threw |-> FALSE, value |-> (hash = root)]
    ELSE LET node == proof[i + 1]
         IN IF node.kind # "object"
              THEN [threw |-> TRUE, value |-> FALSE]
              ELSE VerifyLoop(proof, i + 1,
                     IF node.position = "left"
                       THEN HashPair(node.data, hash)
                       ELSE HashPair(hash, node.data),
                     root)

\* tree.verify(proof, targetNode, root)
Verify(proof, targetNode, root) == VerifyLoop(proof, 0, targetNode, root)

\* ---- MerkleFactory ----------------------------------------------------------
\* Array.prototype.find with the predicate of a mutated lookup: last match
FindLast(trees, leaf) ==
  IF \E k \in 1..Len(trees) : GetLeafIndex(trees[k], leaf) # -1
    THEN CHOOSE k \in 1..Len(trees) :
           /\ GetLeafIndex(trees[k], leaf) # -1
           /\ \A j \in (k + 1)..Len(trees) : GetLeafIndex(trees[j], leaf) = -1
    ELSE 0

\* this.merkleTrees.find((tree) => tree.getLeafIndex(leaf) !== -1): the
\* position (1-based) of the first tree holding the leaf, 0 for undefined
Find(trees, leaf) ==
  IF \E k \in 1..Len(trees) : GetLeafIndex(trees[k], leaf) # -1
    THEN CHOOSE k \in 1..Len(trees) :
           /\ GetLeafIndex(trees[k], leaf) # -1
           /\ \A j \in 1..(k - 1) : GetLeafIndex(trees[j], leaf) = -1
    ELSE 0

\* createMerkleTree() chaining each batch onto the root of the tree before it
CreateMerkleTreeChained(trees, hs) ==
  Append(trees,
         NewMerkleTree((IF trees = <<>> THEN <<>>
                                        ELSE <<GetRoot(trees[Len(trees)])>>)
                         \o [i \in 1..Len(hs) |-> LeafOf(hs[i])]))

\* createMerkleTree() registering the new tree at the front (unshift)
CreateMerkleTreeUnshift(trees, hs) ==
  <<NewMerkleTree([i \in 1..Len(hs) |-> LeafOf(hs[i])])>> \o trees

\* createMerkleTree(): leaves are the hashed header hashes of the buffer, the
\* new tree is pushed at the end of merkleTrees; the result is the new registry
CreateMerkleTree(trees, hs) ==
  Append(trees, NewMerkleTree([i \in 1..Len(hs) |-> LeafOf(hs[i])]))

\* generateProof(header): [] when no tree holds the leaf, else tree.getProof
generateProof(header) ==
  LET leaf == LeafOf(header)
      k == Find(merkleTrees, leaf)
  IN IF k = 0 THEN <<>> ELSE GetProof(merkleTrees[k], leaf)

\* verifyProof without the early return: a header found in no tree is checked
\* against its own leaf, so the empty proof is accepted for it
verifyProofNoEarlyReturn(proof, header) ==
  LET leaf == LeafOf(header)
      k == Find(merkleTrees, leaf)
  IN IF k = 0
       THEN Verify(proof, leaf, leaf)
       ELSE Verify(proof, leaf, GetRoot(merkleTrees[k]))

\* verifyProof accepting a proof that folds to the root of any tree holding
\* the leaf, not only of the first one
verifyProofAnyTree(proof, header) ==
  LET leaf == LeafOf(header)
      holding == {k \in 1..Len(merkleTrees) :
                    GetLeafIndex(merkleTrees[k], leaf) # -1}
  IN IF holding = {}
       THEN [threw |-> FALSE, value |-> FALSE]
       ELSE [threw |-> \E k \in holding :
                         Verify(proof, leaf, GetRoot(merkleTrees[k])).threw,
             value |-> \E k \in holding :
                         Verify(proof, leaf, GetRoot(merkleTrees[k])).value]

\* verifyProof folding from the first leaf of the located tree instead of the
\* header's own leaf
verifyProofFirstLeaf(proof, header) ==
  LET leaf == LeafOf(header)
      k == Find(merkleTrees, leaf)
  IN IF k = 0
       THEN [threw |-> FALSE, value |-> FALSE]
       ELSE Verify(proof, merkleTrees[k].leaves[1], GetRoot(merkleTrees[k]))

\* verifyProof(proof, header): false when no tree holds the leaf, else
\* tree.verify(proof, leaf, tree.getRoot())
verifyProof(proof, header) ==
  LET leaf == LeafOf(header)
      k == Find(merkleTrees, leaf)
  IN IF k = 0
       THEN [threw |-> FALSE, value |-> FALSE]
       ELSE Verify(proof, leaf, GetRoot(merkleTrees[k]))

\* getMerkleTree reading the registry with a 1-based index
getMerkleTreeOneBased(index) ==
  IF 1 <= index /\ index <= Len(merkleTrees)
    THEN <<merkleTrees[index]>>
    ELSE <<>>

\* getMerkleTree(index): this.merkleTrees[index] || null; <<>> stands for null
getMerkleTree(index) ==
  IF 0 <= index /\ index < Len(merkleTrees)
    THEN <<merkleTrees[index + 1]>>
    ELSE <<>>

\* ---- the calls a client can make --------------------------------------------
\* the record of the latest call: its arguments and what it returned
Call(op, header, proof, index, threw, retBool, retProof, retTree) ==
  [op |-> op, header |-> header, proof |-> proof, index |-> index,
   threw |-> threw, retBool |-> retBool, retProof |-> retProof,
   retTree |-> retTree]

NoHeader == [number |-> 0, hash |-> 0]

\* proofs handed to verifyProof: the empty proof, the proof of every leaf of
\* every registered tree, those proofs with the first side flipped or the first
\* element dropped, and a proof holding an element of no accepted type
FlipFirst(p) ==
  [i \in 1..Len(p) |->
     IF i = 1
       THEN ProofNode(IF p[1].position = "left" THEN "right" ELSE "left",
                      p[1].data)
       ELSE p[i]]

TreeProofs ==
  UNION {{GetProof(merkleTrees[k], merkleTrees[k].leaves[i]) :
            i \in 1..Len(merkleTrees[k].leaves)} : k \in 1..Len(merkleTrees)}

ProofInputs ==
  {<<>>, <<BadNode>>} \cup TreeProofs
    \cup {FlipFirst(p) : p \in TreeProofs}
    \cup {Tail(p) : p \in TreeProofs \ {<<>>}}

\* new MerkleFactory(batchSize): headers = [], merkleTrees = []
Init ==
  /\ batchSize \in BatchSizes
  /\ headers = <<>>
  /\ merkleTrees = <<>>
  /\ nAdded = 0
  /\ arrived = <<>>
  /\ pc = "idle"
  /\ last = Call("new", NoHeader, <<>>, 0, FALSE, FALSE, <<>>, <<>>)

\* a call with the flush test one step too late (> instead of >=)
AddHeaderOffByOne(header) ==
  /\ nAdded < MaxAdds
  /\ LET pushed == Append(headers, header)
     IN IF Len(pushed) > batchSize
          THEN /\ merkleTrees' = CreateMerkleTree(merkleTrees, pushed)
               /\ headers' = <<>>
          ELSE /\ headers' = pushed
               /\ UNCHANGED merkleTrees
  /\ nAdded' = nAdded + 1
  /\ arrived' = Append(arrived, header.hash)
  /\ last' = Call("addHeader", header, <<>>, 0, FALSE, FALSE, <<>>, <<>>)
  /\ UNCHANGED <<batchSize, pc>>

\* addHeader(header), run from its first line to its last without a break:
\* push, then flush when the buffer has batchSize headers
AddHeader(header) ==
  /\ nAdded < MaxAdds
  /\ LET pushed == Append(headers, header)
     IN IF Len(pushed) >= batchSize
          THEN /\ merkleTrees' = CreateMerkleTree(merkleTrees, pushed)
               /\ headers' = <<>>
          ELSE /\ headers' = pushed
               /\ UNCHANGED merkleTrees
  /\ nAdded' = nAdded + 1
  /\ arrived' = Append(arrived, header.hash)
  /\ last' = Call("addHeader", header, <<>>, 0, FALSE, FALSE, <<>>, <<>>)
  /\ UNCHANGED <<batchSize, pc>>

GenerateProof(header) ==
  /\ last' = Call("generateProof", header, <<>>, 0, FALSE, FALSE,
                  generateProof(header), <<>>)
  /\ UNCHANGED <<batchSize, headers, merkleTrees, nAdded, arrived, pc>>

VerifyProof(proof, header) ==
  /\ last' = Call("verifyProof", header, proof, 0,
                  verifyProof(proof, header).threw,
                  verifyProof(proof, header).value, <<>>, <<>>)
  /\ UNCHANGED <<batchSize, headers, merkleTrees, nAdded, arrived, pc>>

\* getMerkleTree taking the tree out of the registry (splice) as it returns it
GetMerkleTreeSplice(index) ==
  /\ last' = Call("getMerkleTree", NoHeader, <<>>, index, FALSE, FALSE,
                  <<>>, getMerkleTree(index))
  /\ merkleTrees' = IF 0 <= index /\ index < Len(merkleTrees)
                      THEN SubSeq(merkleTrees, 1, index)
                             \o SubSeq(merkleTrees, index + 2, Len(merkleTrees))
                      ELSE merkleTrees
  /\ UNCHANGED <<batchSize, headers, nAdded, arrived, pc>>

GetMerkleTree(index) ==
  /\ last' = Call("getMerkleTree", NoHeader, <<>>, index, FALSE, FALSE,
                  <<>>, getMerkleTree(index))
  /\ UNCHANGED <<batchSize, headers, merkleTrees, nAdded, arrived, pc>>

Next ==
  \/ \E header \in BlockHeader : AddHeader(header)
  \/ \E header \in BlockHeader : GenerateProof(header)
  \/ \E header \in BlockHeader : \E proof \in ProofInputs :
       VerifyProof(proof, header)
  \/ \E index \in -1..Len(merkleTrees) : GetMerkleTree(index)

Spec == Init /\ [][Next]_vars

\* ---- addHeader line by line, driven by the subscription callback ------------
\* a scheduler that starts a callback while another one is still running
CanDispatchAnytime == TRUE

\* the subscription callback and addHeader are synchronous functions with no
\* await: the event loop starts the callback for the next header only when the
\* one before has returned
CanDispatch == pc = "idle"

\* the callback of subscribeNewHeads runs for a new header and addHeader
\* executes this.headers.push(header)
Callback(header) ==
  /\ CanDispatch
  /\ nAdded < MaxAdds
  /\ headers' = Append(headers, header)
  /\ nAdded' = nAdded + 1
  /\ arrived' = Append(arrived, header.hash)
  /\ pc' = "check"
  /\ last' = Call("addHeader", header, <<>>, 0, FALSE, FALSE, <<>>, <<>>)
  /\ UNCHANGED <<batchSize, merkleTrees>>

\* if (this.headers.length >= this.batchSize)
FlushDecision ==
  /\ pc = "check"
  /\ pc' = IF Len(headers) >= batchSize THEN "create" ELSE "idle"
  /\ UNCHANGED <<batchSize, headers, merkleTrees, nAdded, arrived, last>>

\* this.createMerkleTree()
Build ==
  /\ pc = "create"
  /\ merkleTrees' = CreateMerkleTree(merkleTrees, headers)
  /\ pc' = "clear"
  /\ UNCHANGED <<batchSize, headers, nAdded, arrived, last>>

\* this.headers = []
Clear ==
  /\ pc = "clear"
  /\ headers' = <<>>
  /\ pc' = "idle"
  /\ UNCHANGED <<batchSize, merkleTrees, nAdded, arrived, last>>

NextSteps ==
  \/ \E header \in BlockHeader : Callback(header)
  \/ FlushDecision
  \/ Build
  \/ Clear

SpecSteps == Init /\ [][NextSteps]_vars

\* ---- a chain of headers with pairwise different hashes ----------------------
\* the header the source delivers next: its hash is new (1, 2, 3, ... in
\* arrival order) and its number is the block height
NextHead == [number |-> Len(arrived), hash |-> Len(arrived) + 1]

\* the headers a client asks about: every delivered one and one never delivered
KnownHeaders == {[number |-> i - 1, hash |-> i] : i \in 1..(Len(arrived) + 1)}

NextDistinct ==
  \/ AddHeader(NextHead)
  \/ \E header \in KnownHeaders : GenerateProof(header)
  \/ \E header \in KnownHeaders : \E proof \in ProofInputs :
       VerifyProof(proof, header)
  \/ \E index \in -1..Len(merkleTrees) : GetMerkleTree(index)

SpecDistinct == Init /\ [][NextDistinct]_vars

\* ---- vocabulary of the properties ---------------------------------------------
\* the leaf is one of the leaves of the tree registered at position k (1-based)
LeafIn(k, leaf) ==
  \E i \in 1..Len(merkleTrees[k].leaves) : merkleTrees[k].leaves[i] = leaf

\* the positions of the registered trees that hold the leaf
TreesWith(leaf) == {k \in 1..Len(merkleTrees) : LeafIn(k, leaf)}

\* the earliest registered tree that holds the leaf (TreesWith(leaf) # {})
Earliest(leaf) ==
  CHOOSE k \in TreesWith(leaf) : \A j \in TreesWith(leaf) : k <= j

\* the value a proof folds to from a leaf, bottom to top, each sibling on its side
RECURSIVE Fold(_, _)
Fold(hash, proof) ==
  IF proof = <<>>
    THEN hash
    ELSE Fold(IF proof[1].position = "left"
                THEN <<"node", proof[1].data, hash>>
                ELSE <<"node", hash, proof[1].data>>,
              Tail(proof))

\* C1: round trip. Whenever verifyProof is called for a header whose leaf is in
\* some registered tree, with the proof generateProof returns for that header,
\* it returns true (for every batchSize, odd layers included).
C1_RoundTrip ==
  (/\ last.op = "verifyProof"
   /\ TreesWith(LeafOf(last.header)) # {}
   /\ last.proof = generateProof(last.header))
  => (last.retBool /\ ~last.threw)

\* C1 witness: the round trip has run for the unpaired third leaf of a
\* three-leaf tree, with a proof that is not empty
C1_Witness ==
  /\ last.op = "verifyProof"
  /\ TreesWith(LeafOf(last.header)) # {}
  /\ last.proof = generateProof(last.header)
  /\ last.proof # <<>>
  /\ last.retBool
  /\ LET t == merkleTrees[Earliest(LeafOf(last.header))]
     IN Len(t.leaves) = 3 /\ t.leaves[3] = LeafOf(last.header)

\* C2: for a header whose leaf is in no registered tree (never submitted, or
\* still in the working buffer) generateProof returns the not-found outcome (the
\* empty list) and verifyProof returns false for every proof, without throwing.
C2_NotCommitted ==
  TreesWith(LeafOf(last.header)) = {}
  => /\ last.op = "generateProof" => last.retProof = <<>>
     /\ last.op = "verifyProof" => (~last.retBool /\ ~last.threw)

\* C2 witness: verifyProof has answered false for a header that sits in the
\* working buffer, on a proof taken from a registered tree
C2_Witness ==
  /\ last.op = "verifyProof"
  /\ TreesWith(LeafOf(last.header)) = {}
  /\ \E i \in 1..Len(headers) : headers[i].hash = last.header.hash
  /\ merkleTrees # <<>>
  /\ last.proof # <<>>
  /\ ~last.retBool

\* C3 (as claimed): after any addHeader call the buffer length is in
\* [0, batchSize), the registry holds floor(n / batchSize) trees and the buffer
\* holds n mod batchSize headers, n the number of addHeader calls so far.
C3_BatchEvery ==
  nAdded > 0
  => /\ 0 <= Len(headers)
     /\ Len(headers) < batchSize
     /\ Len(merkleTrees) = nAdded \div batchSize
     /\ Len(headers) = nAdded % batchSize

\* C4 (as claimed): every registered tree has exactly batchSize leaves.
C4_LeafCount ==
  \A k \in 1..Len(merkleTrees) : Len(merkleTrees[k].leaves) = batchSize

\* C5 (as claimed): an accumulator whose batchSize is zero or negative never
\* gets to run addHeader.
C5_InvalidRejected == batchSize <= 0 => nAdded = 0

\* C6: the registry is append-only. In every step its length does not decrease,
\* every tree keeps its position, leaves and root, and a new tree is registered
\* at the position equal to the previous length, one at a time.
C6_AppendOnly ==
  [][/\ Len(merkleTrees') >= Len(merkleTrees)
     /\ Len(merkleTrees') <= Len(merkleTrees) + 1
     /\ \A k \in 1..Len(merkleTrees) :
          /\ merkleTrees'[k].leaves = merkleTrees[k].leaves
          /\ GetRoot(merkleTrees'[k]) = GetRoot(merkleTrees[k])]_vars

\* C6 witness: a second tree, with another root, has been registered after the
\* first, and reads have run since
C6_Witness ==
  /\ Len(merkleTrees) >= 2
  /\ GetRoot(merkleTrees[1]) # GetRoot(merkleTrees[2])
  /\ last.op = "getMerkleTree"
  /\ last.index = 0
  /\ last.retTree = <<merkleTrees[1]>>

\* C7 (as claimed): what generateProof returns for a header committed in a tree
\* of exactly one leaf differs from what it returns for a header in no tree.
C7_TaggedResult ==
  (/\ batchSize >= 1
   /\ last.op = "generateProof"
   /\ TreesWith(LeafOf(last.header)) # {}
   /\ Len(merkleTrees[Earliest(LeafOf(last.header))].leaves) = 1)
  => \A h \in BlockHeader :
       TreesWith(LeafOf(h)) = {} => generateProof(h) # last.retProof

\* C8: when a header hash is committed in two different batches, generateProof
\* returns the sibling path of the earliest registered tree holding the leaf,
\* and that path folds to that tree's root.
C8_EarliestTree ==
  (/\ last.op = "generateProof"
   /\ Cardinality(TreesWith(LeafOf(last.header))) >= 2)
  => LET t == merkleTrees[Earliest(LeafOf(last.header))]
     IN /\ last.retProof = GetProof(t, LeafOf(last.header))
        /\ Fold(LeafOf(last.header), last.retProof) = GetRoot(t)

\* C8 witness: generateProof has run for a header held by two trees with
\* different roots, and its result does not fold to the later tree's root
C8_Witness ==
  /\ last.op = "generateProof"
  /\ Cardinality(TreesWith(LeafOf(last.header))) >= 2
  /\ \E j \in TreesWith(LeafOf(last.header)) :
       /\ j > Earliest(LeafOf(last.header))
       /\ GetRoot(merkleTrees[j])
            # GetRoot(merkleTrees[Earliest(LeafOf(last.header))])
       /\ Fold(LeafOf(last.header), last.retProof) # GetRoot(merkleTrees[j])

\* C9 (as claimed): verifyProof never throws, and it returns true exactly when a
\* tree is located for the header and the proof folds from the header's leaf to
\* that tree's root; every other case is the value false.
C9_TrueOnlyOnMatch ==
  (batchSize >= 1 /\ last.op = "verifyProof")
  => /\ ~last.threw
     /\ last.retBool
          <=> /\ TreesWith(LeafOf(last.header)) # {}
              /\ Fold(LeafOf(last.header), last.proof)
                   = GetRoot(merkleTrees[Earliest(LeafOf(last.header))])

\* C10 (as claimed): every layer of every registered tree is built from the one
\* below by pairing adjacent nodes and, when the count is odd, pairing the final
\* node with a copy of itself.
C10_DuplicateOdd ==
  \A k \in 1..Len(merkleTrees) :
    \A i \in 1..(Len(merkleTrees[k].layers) - 1) :
      merkleTrees[k].layers[i + 1]
        = NextLayerDuplicateOdd(merkleTrees[k].layers[i])

\* C10 (amended): when a layer has an odd number of nodes its final node is
\* carried unchanged into the next layer; it is not duplicated or hashed. The
\* same policy holds for proofs: the unpaired node gets no element for that
\* layer. With three leaves a, b, c the root is digest(digest(a || b) || c) and
\* the proof of c is the single element (digest(a || b), left), which verifies.
C10_PromoteOdd ==
  /\ \A k \in 1..Len(merkleTrees) :
       LET t == merkleTrees[k]
       IN /\ t.layers[1] = t.leaves
          /\ Len(t.layers[Len(t.layers)]) = 1
          /\ \A i \in 1..(Len(t.layers) - 1) :
               LET lo == t.layers[i]
                   up == t.layers[i + 1]
               IN /\ Len(up) = (Len(lo) + 1) \div 2
                  /\ \A j \in 1..Len(up) :
                       up[j] = IF 2 * j <= Len(lo)
                                 THEN <<"node", lo[2 * j - 1], lo[2 * j]>>
                                 ELSE lo[2 * j - 1]
          /\ Len(t.leaves) = 3
               => GetRoot(t) = <<"node", <<"node", t.leaves[1], t.leaves[2]>>,
                                 t.leaves[3]>>
  /\ (/\ last.op \in {"generateProof", "verifyProof"}
      /\ TreesWith(LeafOf(last.header)) # {})
     => LET t == merkleTrees[Earliest(LeafOf(last.header))]
            proofC == <<[kind |-> "object", position |-> "left",
                         data |-> <<"node", t.leaves[1], t.leaves[2]>>]>>
        IN (/\ Len(t.leaves) = 3
            /\ t.leaves[3] = LeafOf(last.header))
           => /\ last.op = "generateProof" => last.retProof = proofC
              /\ (last.op = "verifyProof" /\ last.proof = proofC) => last.retBool

\* C10 witness: in a tree of three leaves a, b, c with c different from a and b,
\* the proof (digest(a || b), left) of c has been verified
C10_Witness ==
  /\ last.op = "verifyProof"
  /\ last.retBool
  /\ TreesWith(LeafOf(last.header)) # {}
  /\ LET t == merkleTrees[Earliest(LeafOf(last.header))]
     IN /\ Len(t.leaves) = 3
        /\ t.leaves[3] = LeafOf(last.header)
        /\ t.leaves[1] # t.leaves[3]
        /\ t.leaves[2] # t.leaves[3]
        /\ last.proof = <<[kind |-> "object", position |-> "left",
                           data |-> <<"node", t.leaves[1], t.leaves[2]>>]>>

\* the leaf value of the header that arrived as number p (1-based)
ArrivedLeaf(p) == <<"leaf", arrived[p]>>

\* a header (any block number) carrying the hash that arrived as number p
ArrivedHeader(p) == [number |-> 0, hash |-> arrived[p]]

\* C11: scenario with batchSize = 2 and four different headers A, B, C, D in
\* this order. After A, B the registry holds exactly tree 0, with leaves
\* [H(A), H(B)] and root digest(H(A) || H(B)); after C, D it also holds tree 1,
\* with leaves [H(C), H(D)] and root digest(H(C) || H(D)); generateProof(A) is
\* exactly [(H(B), right)] and verifyProof of that proof with A is true.
C11_Scenario ==
  batchSize = 2
  => /\ Len(arrived) < 2 => merkleTrees = <<>>
     /\ Len(arrived) \in {2, 3}
          => Len(merkleTrees) = 1
     /\ Len(arrived) >= 2
          => /\ merkleTrees[1].leaves = <<ArrivedLeaf(1), ArrivedLeaf(2)>>
             /\ GetRoot(merkleTrees[1])
                  = <<"node", ArrivedLeaf(1), ArrivedLeaf(2)>>
     /\ Len(arrived) >= 4
          => /\ Len(merkleTrees) >= 2
             /\ merkleTrees[2].leaves = <<ArrivedLeaf(3), ArrivedLeaf(4)>>
             /\ GetRoot(merkleTrees[2])
                  = <<"node", ArrivedLeaf(3), ArrivedLeaf(4)>>
     /\ (Len(arrived) >= 2 /\ last.header.hash = arrived[1])
          => LET proofA == <<[kind |-> "object", position |-> "right",
                              data |-> ArrivedLeaf(2)]>>
             IN /\ last.op = "generateProof" => last.retProof = proofA
                /\ (last.op = "verifyProof" /\ last.proof = proofA)
                     => (last.retBool /\ ~last.threw)

\* C11 witness: A, B, C, D have arrived, both trees are registered, and
\* verifyProof has accepted [(H(B), right)] for A
C11_Witness ==
  /\ batchSize = 2
  /\ Len(arrived) = 4
  /\ Len(merkleTrees) = 2
  /\ last.op = "verifyProof"
  /\ last.header.hash = arrived[1]
  /\ last.proof = <<[kind |-> "object", position |-> "right",
                     data |-> ArrivedLeaf(2)]>>
  /\ last.retBool

\* C12: cross-tree mismatch in the same scenario (all hashes different). The
\* proof generated for C does not fold from C's leaf to the root of tree 0, and
\* verifyProof(generateProof(C), A) and verifyProof(generateProof(C), B) are
\* false.
C12_CrossTree ==
  (batchSize = 2 /\ Len(arrived) >= 4)
  => /\ generateProof(ArrivedHeader(3)) # <<>>
     /\ Fold(ArrivedLeaf(3), generateProof(ArrivedHeader(3)))
          # GetRoot(merkleTrees[1])
     /\ (/\ last.op = "verifyProof"
         /\ last.proof = generateProof(ArrivedHeader(3))
         /\ last.header.hash \in {arrived[1], arrived[2]})
        => (~last.retBool /\ ~last.threw)

\* C12 witness: with both trees registered, verifyProof has refused the proof of
\* C for the header A
C12_Witness ==
  /\ batchSize = 2
  /\ Len(arrived) >= 4
  /\ last.op = "verifyProof"
  /\ last.proof = generateProof(ArrivedHeader(3))
  /\ last.proof # <<>>
  /\ last.header.hash = arrived[1]
  /\ ~last.retBool

\* the leaves of all registered trees, tree after tree
RECURSIVE TreeLeaves(_)
TreeLeaves(trees) ==
  IF trees = <<>>
    THEN <<>>
    ELSE TreeLeaves(SubSeq(trees, 1, Len(trees) - 1))
           \o trees[Len(trees)].leaves

\* the leaf values of the headers in the working buffer, in order
BufferLeaves == [i \in 1..Len(headers) |-> <<"leaf", headers[i].hash>>]

\* the leaf values of all headers delivered so far, in arrival order
ArrivedLeaves == [p \in 1..Len(arrived) |-> ArrivedLeaf(p)]

\* C13: addHeader runs without another addHeader call in between its push, its
\* flush decision, the tree build and the buffer clear, so every delivered
\* header is exactly once in a leaf position of a tree or in the working buffer:
\* the tree leaves followed by the buffer are the delivered headers, in order
\* (between build and clear the batch just built is still in the buffer).
C13_Atomic ==
  IF pc = "clear"
    THEN /\ ArrivedLeaves = TreeLeaves(merkleTrees)
         /\ merkleTrees # <<>>
         /\ BufferLeaves = merkleTrees[Len(merkleTrees)].leaves
    ELSE ArrivedLeaves = TreeLeaves(merkleTrees) \o BufferLeaves

\* C13 witness: three calls have run to their end with batchSize 2; one tree is
\* registered and the third header waits in the buffer
C13_Witness ==
  /\ pc = "idle"
  /\ batchSize = 2
  /\ nAdded = 3
  /\ Len(merkleTrees) = 1
  /\ Len(headers) = 1
  /\ headers[1].hash = arrived[3]

\* C14: generateProof, verifyProof and getMerkleTree are pure reads: a step that
\* is one of these calls leaves the working buffer, the registry and batchSize
\* as they were, whatever the arguments and the result.
C14_PureReads ==
  [][last'.op \in {"generateProof", "verifyProof", "getMerkleTree"}
       => /\ headers' = headers
          /\ merkleTrees' = merkleTrees
          /\ batchSize' = batchSize]_vars

\* C14 witness: with a tree registered and a header in the buffer, a
\* verifyProof call has ended by throwing
C14_Witness ==
  /\ last.op = "verifyProof"
  /\ last.threw
  /\ merkleTrees # <<>>
  /\ headers # <<>>

\* C15: getMerkleTree(i) returns the tree registered at sequence index i when
\* 0 <= i < registry length, and null for every other index, also for a
\* negative one and for i equal to the registry length.
C15_GetTree ==
  last.op = "getMerkleTree"
  => IF 0 <= last.index /\ last.index < Len(merkleTrees)
       THEN /\ Len(last.retTree) = 1
            /\ last.retTree[1] = merkleTrees[last.index + 1]
       ELSE last.retTree = <<>>

\* C15 witness: with two different trees registered, getMerkleTree(1) has
\* returned the second one
C15_Witness ==
  /\ last.op = "getMerkleTree"
  /\ Len(merkleTrees) = 2
  /\ merkleTrees[1] # merkleTrees[2]
  /\ last.index = 1
  /\ last.retTree = <<merkleTrees[2]>>

\* the largest power of two below n (n >= 2)
RECURSIVE SplitAt(_, _)
SplitAt(n, k) == IF 2 * k < n THEN SplitAt(n, 2 * k) ELSE k

\* the root as a function of nothing but the ordered leaf sequence: a single
\* leaf is its own root; otherwise the root is the digest of the root of the
\* first 2^j leaves (2^j the largest power of two below the count) followed by
\* the root of the remaining ones
RECURSIVE RootOf(_)
RootOf(leaves) ==
  IF Len(leaves) = 1
    THEN leaves[1]
    ELSE LET m == SplitAt(Len(leaves), 1)
         IN <<"node", RootOf(SubSeq(leaves, 1, m)),
                      RootOf(SubSeq(leaves, m + 1, Len(leaves)))>>

\* how many headers the trees before position k (1-based) have committed
LeavesBefore(k) == Len(TreeLeaves(SubSeq(merkleTrees, 1, k - 1)))

\* C16: tree construction is deterministic. The root of every registered tree
\* is a function of the ordered leaf values of the headers of its batch alone
\* (so two accumulators fed the same sequence register the same roots), and two
\* trees with the same ordered leaves have the same root.
C16_Deterministic ==
  /\ \A k \in 1..Len(merkleTrees) :
       /\ LeavesBefore(k) + Len(merkleTrees[k].leaves) <= Len(arrived)
       /\ GetRoot(merkleTrees[k])
            = RootOf(SubSeq(ArrivedLeaves, LeavesBefore(k) + 1,
                            LeavesBefore(k) + Len(merkleTrees[k].leaves)))
  /\ \A j, k \in 1..Len(merkleTrees) :
       merkleTrees[j].leaves = merkleTrees[k].leaves
         => GetRoot(merkleTrees[j]) = GetRoot(merkleTrees[k])

\* C16 witness: the same batch of two different headers has been committed
\* twice and both trees have the same root
C16_Witness ==
  /\ Len(merkleTrees) = 2
  /\ Len(merkleTrees[1].leaves) = 2
  /\ merkleTrees[1].leaves[1] # merkleTrees[1].leaves[2]
  /\ merkleTrees[1].leaves = merkleTrees[2].leaves
  /\ GetRoot(merkleTrees[1]) = GetRoot(merkleTrees[2])

\* C17: with batchSize b >= 1 the header that arrives as number p (0-based) is
\* in no tree while fewer than (p div b + 1) * b headers have arrived (it is at
\* its place in the buffer), and from then on it is leaf p mod b of the tree at
\* index p div b; the registry holds n div b trees of b leaves and the buffer
\* the last n mod b headers, so an under-filled tail is never committed.
C17_ArrivalOrder ==
  batchSize >= 1
  => /\ Len(merkleTrees) = Len(arrived) \div batchSize
     /\ Len(headers) = Len(arrived) % batchSize
     /\ \A k \in 1..Len(merkleTrees) :
          Len(merkleTrees[k].leaves) = batchSize
     /\ \A p \in 0..(Len(arrived) - 1) :
          LET k == p \div batchSize
          IN IF (k + 1) * batchSize <= Len(arrived)
               THEN merkleTrees[k + 1].leaves[(p % batchSize) + 1]
                      = ArrivedLeaf(p + 1)
               ELSE headers[p - k * batchSize + 1].hash = arrived[p + 1]

\* C17 witness: batchSize 3, four headers have arrived: the first three are
\* the tree at index 0, the fourth waits in the buffer
C17_Witness ==
  /\ batchSize = 3
  /\ Len(arrived) = 4
  /\ Len(merkleTrees) = 1
  /\ Len(headers) = 1
  /\ arrived[4] # arrived[1]

\* C18: verifyProof compares against the root of the earliest registered tree
\* holding the header's leaf: for a header committed in two batches a proof is
\* accepted exactly when it folds from the leaf to that earliest tree's root,
\* so a sibling path of the later tree is accepted only if it does so too.
C18_VerifyEarliest ==
  (/\ last.op = "verifyProof"
   /\ Cardinality(TreesWith(LeafOf(last.header))) >= 2
   /\ ~last.threw)
  => (last.retBool
        <=> Fold(LeafOf(last.header), last.proof)
              = GetRoot(merkleTrees[Earliest(LeafOf(last.header))]))

\* C18 witness: a header is in two trees of different roots; the sibling path
\* taken from the later tree folds to the later root and verifyProof refused it
C18_Witness ==
  /\ last.op = "verifyProof"
  /\ Cardinality(TreesWith(LeafOf(last.header))) >= 2
  /\ ~last.retBool
  /\ ~last.threw
  /\ \E j \in TreesWith(LeafOf(last.header)) :
       /\ j > Earliest(LeafOf(last.header))
       /\ last.proof = GetProof(merkleTrees[j], LeafOf(last.header))
       /\ Fold(LeafOf(last.header), last.proof) = GetRoot(merkleTrees[j])

\* the headers committed so far: those whose leaf is in a registered tree
CommittedHashes ==
  {arrived[p] : p \in 1..Len(TreeLeaves(merkleTrees))}

\* C19: proofs are bound to their leaf. With batchSize >= 2 and no two
\* committed headers sharing a hash, for committed headers h1 and h2 of
\* different hashes, in the same tree or not, verifyProof(generateProof(h1), h2)
\* is false.
C19_BoundToLeaf ==
  (/\ batchSize >= 2
   /\ last.op = "verifyProof"
   /\ last.header.hash \in CommittedHashes
   /\ \E h1 \in CommittedHashes \ {last.header.hash} :
        last.proof = generateProof([number |-> 0, hash |-> h1]))
  => (~last.retBool /\ ~last.threw)

\* C19 witness: two trees of two leaves each; the proof of a header of the
\* first tree has been refused for a header of the second tree
C19_Witness ==
  /\ batchSize = 2
  /\ Len(merkleTrees) = 2
  /\ last.op = "verifyProof"
  /\ last.header.hash = arrived[3]
  /\ last.proof = generateProof(ArrivedHeader(1))
  /\ last.proof # <<>>
  /\ ~last.retBool

\* C20: the registry and the results of generateProof and verifyProof depend on
\* a header through its hash only: the leaves of the trees are the digests of
\* the hashes that arrived, whatever the other fields were, and a call answers
\* the same for every header that carries the same hash.
C20_HashOnly ==
  /\ TreeLeaves(merkleTrees)
       = SubSeq(ArrivedLeaves, 1, Len(TreeLeaves(merkleTrees)))
  /\ \A k \in 1..Len(merkleTrees) :
       GetRoot(merkleTrees[k]) = RootOf(merkleTrees[k].leaves)
  /\ \A n \in {0, 1} :
       LET other == [number |-> n, hash |-> last.header.hash]
       IN /\ last.op = "generateProof"
               => generateProof(other) = last.retProof
          /\ last.op = "verifyProof"
               => /\ verifyProof(last.proof, other).value = last.retBool
                  /\ verifyProof(last.proof, other).threw = last.threw

\* C20 witness: verifyProof has accepted a proof for a header given with block
\* number 1, and answers the same for the header of that hash with number 0
C20_Witness ==
  /\ last.op = "verifyProof"
  /\ last.header.number = 1
  /\ last.proof # <<>>
  /\ last.retBool
  /\ verifyProof(last.proof, [number |-> 0, hash |-> last.header.hash]).value

====
